---- MODULE Spec2Model ----
(***************************************************************************)
(* tracked-mem-rs: SafeUninitializedVec (src/src/uninitialized/mod.rs) and *)
(* MightOwn (src/src/might_own/mod.rs) as state machines.                  *)
(*                                                                         *)
(* A value of type T is an identity 1..MaxVals, so that every destructor   *)
(* run can be charged to the object it ran on.  A storage cell holds the   *)
(* bytes last written to it: a value identity, or Garbage when nothing was *)
(* ever written.  A bitwise copy out of a cell (take) leaves the bytes in  *)
(* place; only the flag says that the cell no longer owns them.            *)
(***************************************************************************)
EXTENDS Integers, Sequences, FiniteSets, TLC

\* ---------------------------------------------------------------- bounds
MaxLen == 2
MaxSrc == 3
MaxVals == 4
MaxT == 2

\* bytes of a cell that was never written (Vec::set_len over fresh capacity)
Garbage == 0

Ids == 1..MaxVals
Lens == 0..MaxLen
\* indices a caller may pass: MaxLen is out of range for every buffer
Indices == 0..MaxLen

\* the values a MightOwn's pointee can hold
TVals == 0..MaxT

\* Option<T>
None == <<>>
Some(v) == <<v>>

VARIABLES
    pc,           \* where the owner of the buffer is
    vals,         \* SafeUninitializedVec.vals
    initialized,  \* SafeUninitializedVec.initialized
    dlen,         \* the local `len` of Drop::drop
    out,          \* what into_vec / get_parts handed to the caller
    held,         \* values the caller owns because take returned them
    used,         \* number of values constructed so far
    drops,        \* destructor runs per value
    wild,         \* destructor runs on cells that never held a value
    panicked,     \* an index panic unwound the caller
    ret,          \* what the most recent call returned (Option<T>)
    source,       \* the Vec given to from_vec (history)
    shadow,       \* per tracked slot: the value last written and not taken (history)
    emptied,      \* slots emptied by take and not rewritten or swapped since (history)
    hpc,          \* where the owner of the MightOwn is
    owned,        \* MightOwn.owned
    cell,         \* the contents of the pointee *MightOwn.ptr
    frees,        \* how many times the pointee was destroyed and freed
    bx,           \* the caller holds the Box<T> that get_owned returned
    res,          \* what get_owned returned: "none", "ok" or "err"
    seen,         \* the most recent read of the pointee: through whom, and what
    wrote         \* the value last stored in the pointee (history)

bufvars == <<pc, vals, initialized, dlen, out, held, used, drops, wild,
             panicked, ret, source, shadow, emptied>>
movars == <<hpc, owned, cell, frees, bx, res, seen, wrote>>
vars == <<bufvars, movars>>

\* ------------------------------------------------------------ Vec helpers
Fill(x, n) == [k \in 1..n |-> x]

\* Vec::swap / slice::swap on 0-based indices
SwapSeq(s, x, y) ==
    [k \in 1..Len(s) |-> IF k = x + 1 THEN s[y + 1]
                         ELSE IF k = y + 1 THEN s[x + 1] ELSE s[k]]

\* Vec::set_len: no destructor runs; growing exposes unwritten bytes
SetLen(s, n) ==
    IF n <= Len(s) THEN SubSeq(s, 1, n)
    ELSE s \o Fill(Garbage, n - Len(s))

\* mutant: the old value is overwritten without its destructor running
DropCell_none(c, d) == d

\* running T's destructor on the bytes of one cell
DropCell(c, d) == IF c = Garbage THEN d ELSE [d EXCEPT ![c] = @ + 1]
WildCell(c, w) == IF c = Garbage THEN w + 1 ELSE w

RECURSIVE DropAll(_, _)
DropAll(s, d) ==
    IF s = <<>> THEN d ELSE DropAll(Tail(s), DropCell(Head(s), d))

WildAll(s, w) == w + Cardinality({k \in 1..Len(s) : s[k] = Garbage})

NoRead == [by |-> "none", v |-> 0]
Read(who, x) == [by |-> who, v |-> x]

NoOut == [kind |-> "none", vec |-> <<>>, flags |-> <<>>]

\* ------------------------------------------------- SafeUninitializedVec
InRange(i) == i < Len(initialized)

\* mutant: the cell is read whatever its flag says
get_value_of_unchecked(vs, init, i) == Some(vs[i + 1])

\* what get_value / get_value_mut return for an index in range
get_value_of(vs, init, i) == IF init[i + 1] THEN Some(vs[i + 1]) ELSE None

\* mutant: the value is stored one slot too low
write_cell_low(vs, i, v) == [vs EXCEPT ![IF i = 0 THEN 1 ELSE i] = v]

\* ptr::write(&mut self.vals[i], val) and the store half of self.vals[i] = val
write_cell(vs, i, v) == [vs EXCEPT ![i + 1] = v]

\* mutant: the store reaches every flag
set_flag_all(init, i, b) == [k \in 1..Len(init) |-> b]

\* mutant: set_value forgets to set the flag
set_flag_unset(init, i, b) == IF b THEN init ELSE [init EXCEPT ![i + 1] = b]

\* mutant: take forgets to clear the flag
set_flag_sticky(init, i, b) == IF b THEN [init EXCEPT ![i + 1] = b] ELSE init

\* self.initialized[i] = b
set_flag(init, i, b) == [init EXCEPT ![i + 1] = b]

\* mutant: a shorter source is not padded
from_vec_vals_short(vec, len) == vec

\* mutant: a longer source is cut down to the tracked length
from_vec_vals_cut(vec, len) == SetLen(vec, len)

\* from_vec: the storage and the flags it builds from a Vec of n elements
from_vec_vals(vec, len) ==
    IF len > Len(vec) THEN SetLen(vec, len) ELSE vec

\* mutant: the padding is flagged like the source's elements
from_vec_flags_all(n, len) == Fill(TRUE, len)

from_vec_flags(n, len) ==
    IF len > n THEN [k \in 1..len |-> k <= n] ELSE Fill(TRUE, len)

\* mutant: the scan stops one short of the last flag
RECURSIVE all_initialized_short(_, _)
all_initialized_short(init, i) ==
    IF i + 1 >= Len(init) THEN TRUE
    ELSE IF ~init[i + 1] THEN FALSE
    ELSE all_initialized_short(init, i + 1)

\* the scan of into_vec: TRUE iff the loop finds no false flag
RECURSIVE all_initialized(_, _)
all_initialized(init, i) ==
    IF i >= Len(init) THEN TRUE
    ELSE IF ~init[i + 1] THEN FALSE
    ELSE all_initialized(init, i + 1)

BufIdle ==
    /\ pc = "start" /\ vals = <<>> /\ initialized = <<>> /\ dlen = 0
    /\ out = NoOut /\ held = {} /\ used = 0
    /\ drops = [t \in Ids |-> 0] /\ wild = 0 /\ panicked = FALSE
    /\ ret = None /\ source = <<>> /\ shadow = <<>> /\ emptied = {}

HandleIdle ==
    /\ hpc = "start" /\ owned = FALSE /\ cell = 0 /\ frees = 0
    /\ bx = FALSE /\ res = "none" /\ seen = NoRead /\ wrote = 0

Init == BufIdle /\ HandleIdle

\* mutant: the flags start out true
new_flags_set(len) == Fill(TRUE, len)

\* vec![false; len]
new_flags(len) == Fill(FALSE, len)

new(len) ==
    /\ pc = "start"
    /\ pc' = "live"
    /\ vals' = SetLen(<<>>, len)
    /\ initialized' = new_flags(len)
    /\ shadow' = Fill(None, len)
    /\ UNCHANGED <<dlen, out, held, used, drops, wild, panicked, ret, source,
                   emptied>>
    /\ UNCHANGED movars

from_vec(n, len) ==
    /\ pc = "start"
    /\ n <= MaxVals
    /\ pc' = "live"
    /\ LET vec == [k \in 1..n |-> k]
       IN /\ source' = vec
          /\ initialized' = from_vec_flags(n, len)
          /\ vals' = from_vec_vals(vec, len)
          /\ shadow' = [k \in 1..len |-> IF k <= n THEN Some(vec[k]) ELSE None]
    /\ used' = n
    /\ UNCHANGED <<dlen, out, held, drops, wild, panicked, ret, emptied>>
    /\ UNCHANGED movars

\* mutant: an index out of range is answered like an empty slot
index_panic_quiet ==
    /\ pc' = pc
    /\ dlen' = dlen
    /\ panicked' = panicked
    /\ ret' = None
    /\ UNCHANGED <<vals, initialized, out, held, wild, source, shadow, emptied>>

\* an index >= initialized.len(): the bounds check of self.initialized[i]
\* panics before anything is touched; unwinding then drops the buffer
index_panic ==
    /\ pc' = "drop_extra"
    /\ dlen' = Len(vals)
    /\ panicked' = TRUE
    /\ ret' = None
    /\ UNCHANGED <<vals, initialized, out, held, wild, source, shadow, emptied>>

set_value(i, v) ==
    /\ pc = "live"
    /\ used < MaxVals
    /\ v = used + 1
    /\ used' = v
    /\ IF ~InRange(i)
       THEN \* val is dropped while unwinding
            /\ index_panic
            /\ drops' = DropCell(v, drops)
       ELSE /\ IF initialized[i + 1]
               THEN /\ drops' = DropCell(vals[i + 1], drops)
                    /\ wild' = WildCell(vals[i + 1], wild)
                    /\ vals' = write_cell(vals, i, v)
                    /\ initialized' = initialized
               ELSE /\ vals' = write_cell(vals, i, v)
                    /\ initialized' = set_flag(initialized, i, TRUE)
                    /\ UNCHANGED <<drops, wild>>
            /\ shadow' = [shadow EXCEPT ![i + 1] = Some(v)]
            /\ emptied' = emptied \ {i}
            /\ ret' = None
            /\ UNCHANGED <<pc, dlen, out, held, panicked, source>>
    /\ UNCHANGED movars

get_value(i) ==
    /\ pc = "live"
    /\ IF ~InRange(i)
       THEN index_panic /\ UNCHANGED <<used, drops>>
       ELSE /\ ret' = get_value_of(vals, initialized, i)
            /\ UNCHANGED <<pc, vals, initialized, dlen, out, held, used, drops,
                           wild, panicked, source, shadow, emptied>>
    /\ UNCHANGED movars

get_value_mut(i) ==
    /\ pc = "live"
    /\ IF ~InRange(i)
       THEN index_panic /\ UNCHANGED <<used, drops>>
       ELSE /\ ret' = get_value_of(vals, initialized, i)
            /\ UNCHANGED <<pc, vals, initialized, dlen, out, held, used, drops,
                           wild, panicked, source, shadow, emptied>>
    /\ UNCHANGED movars

\* mutant: only the flags are exchanged
swap_vals_none(vs, x, y) == vs

\* self.vals.swap(x, y)
swap_vals(vs, x, y) == SwapSeq(vs, x, y)

\* swap: the flags are exchanged first; the bounds check of self.vals.swap
\* comes second and would panic with the flags already exchanged
swap(x, y) ==
    /\ pc = "live"
    /\ IF ~InRange(x) \/ ~InRange(y)
       THEN index_panic /\ UNCHANGED <<used, drops>>
       ELSE IF x >= Len(vals) \/ y >= Len(vals)
       THEN /\ initialized' = SwapSeq(initialized, x, y)
            /\ pc' = "drop_extra"
            /\ dlen' = Len(vals)
            /\ panicked' = TRUE
            /\ ret' = None
            /\ UNCHANGED <<vals, out, held, used, drops, wild, source, shadow,
                           emptied>>
       ELSE /\ initialized' = SwapSeq(initialized, x, y)
            /\ vals' = swap_vals(vals, x, y)
            /\ shadow' = SwapSeq(shadow, x, y)
            /\ emptied' = emptied \ {x, y}
            /\ ret' = None
            /\ UNCHANGED <<pc, dlen, out, held, used, drops, wild, panicked,
                           source>>
    /\ UNCHANGED movars

take(i) ==
    /\ pc = "live"
    /\ IF ~InRange(i)
       THEN index_panic /\ UNCHANGED <<used, drops>>
       ELSE /\ IF initialized[i + 1]
               THEN /\ initialized' = set_flag(initialized, i, FALSE)
                    /\ ret' = Some(vals[i + 1])
                    /\ held' = held \cup {vals[i + 1]}
                    /\ emptied' = emptied \cup {i}
               ELSE /\ ret' = None
                    /\ UNCHANGED <<initialized, held, emptied>>
            /\ shadow' = [shadow EXCEPT ![i + 1] = None]
            /\ UNCHANGED <<pc, vals, dlen, out, used, drops, wild, panicked,
                           source>>
    /\ UNCHANGED movars

\* mutant: the buffer keeps the storage it hands out
replace_vals_kept(vs) == vs

\* what mem::replace(&mut self.vals, Vec::new()) leaves in self.vals
replace_vals(vs) == <<>>

\* into_vec: Err moves self into the error; Ok empties both fields, hands the
\* old vals to the caller, and self is dropped at the end of the call
into_vec ==
    /\ pc = "live"
    /\ IF ~all_initialized(initialized, 0)
       THEN /\ pc' = "err"
            /\ out' = [kind |-> "err", vec |-> <<>>, flags |-> <<>>]
            /\ UNCHANGED <<vals, initialized, dlen>>
       ELSE /\ out' = [kind |-> "ok", vec |-> vals, flags |-> <<>>]
            /\ initialized' = <<>>
            /\ vals' = replace_vals(vals)
            /\ pc' = "drop_extra"
            /\ dlen' = Len(vals')
    /\ ret' = None
    /\ UNCHANGED <<held, used, drops, wild, panicked, source, shadow, emptied>>
    /\ UNCHANGED movars

get_parts ==
    /\ pc = "live"
    /\ out' = [kind |-> "parts", vec |-> vals, flags |-> initialized]
    /\ vals' = replace_vals(vals)
    /\ initialized' = <<>>
    /\ pc' = "drop_extra"
    /\ dlen' = Len(vals')
    /\ ret' = None
    /\ UNCHANGED <<held, used, drops, wild, panicked, source, shadow, emptied>>
    /\ UNCHANGED movars

\* mutant: unwrap hands back a buffer whose flags were reset
unwrap_reset ==
    /\ pc = "err"
    /\ pc' = "live"
    /\ initialized' = Fill(FALSE, Len(initialized))
    /\ UNCHANGED <<vals, dlen, out, held, used, drops, wild, panicked, ret,
                   source, shadow, emptied>>
    /\ UNCHANGED movars

\* UninitializedError::unwrap
unwrap ==
    /\ pc = "err"
    /\ pc' = "live"
    /\ UNCHANGED <<vals, initialized, dlen, out, held, used, drops, wild,
                   panicked, ret, source, shadow, emptied>>
    /\ UNCHANGED movars

\* the buffer goes out of scope, directly or inside an UninitializedError:
\* Drop::drop starts, reading vals.len()
drop_begin ==
    /\ pc \in {"live", "err"}
    /\ pc' = "drop_extra"
    /\ dlen' = Len(vals)
    /\ ret' = None
    /\ UNCHANGED <<vals, initialized, out, held, used, drops, wild, panicked,
                   source, shadow, emptied>>
    /\ UNCHANGED movars

\* mutant: the uninitialized cell is left in the Vec
skip_cell_kept(vs, n) == vs

\* Drop::drop on a false flag: self.vals.set_len(len), no destructor runs
skip_cell(vs, n) == SetLen(vs, n)

\* Vec::pop followed by the drop of the popped Option<T>
PopDrop ==
    IF vals = <<>>
    THEN UNCHANGED <<vals, drops, wild>>
    ELSE /\ vals' = SubSeq(vals, 1, Len(vals) - 1)
         /\ drops' = DropCell(vals[Len(vals)], drops)
         /\ wild' = WildCell(vals[Len(vals)], wild)

\* mutant: the first loop also pops the last tracked cell
has_extra_eq(len, checked_len) == len >= checked_len

\* len > checked_len
has_extra(len, checked_len) == len > checked_len

\* one turn of `while len > checked_len`
drop_extra ==
    /\ pc = "drop_extra"
    /\ IF has_extra(dlen, Len(initialized))
       THEN /\ PopDrop
            /\ dlen' = dlen - 1
            /\ pc' = pc
       ELSE /\ pc' = "drop_tracked"
            /\ UNCHANGED <<vals, drops, wild, dlen>>
    /\ UNCHANGED <<initialized, out, held, used, panicked, ret, source,
                   shadow, emptied>>
    /\ UNCHANGED movars

\* one turn of `while let Some(init) = self.initialized.pop()`; when the
\* flags are exhausted the fields themselves are dropped
drop_tracked ==
    /\ pc = "drop_tracked"
    /\ IF initialized # <<>>
       THEN /\ initialized' = SubSeq(initialized, 1, Len(initialized) - 1)
            /\ dlen' = dlen - 1
            /\ IF initialized[Len(initialized)]
               THEN PopDrop
               ELSE /\ vals' = skip_cell(vals, dlen - 1)
                    /\ UNCHANGED <<drops, wild>>
            /\ pc' = pc
       ELSE /\ drops' = DropAll(vals, drops)
            /\ wild' = WildAll(vals, wild)
            /\ vals' = <<>>
            /\ pc' = "done"
            /\ UNCHANGED <<initialized, dlen>>
    /\ UNCHANGED <<out, held, used, panicked, ret, source, shadow, emptied>>
    /\ UNCHANGED movars

Next ==
    \/ \E len \in Lens : new(len)
    \/ \E n \in 0..MaxSrc, len \in Lens : from_vec(n, len)
    \/ \E i \in Indices, v \in Ids : set_value(i, v)
    \/ \E i \in Indices : get_value(i)
    \/ \E i \in Indices : get_value_mut(i)
    \/ \E x \in Indices, y \in Indices : swap(x, y)
    \/ \E i \in Indices : take(i)
    \/ into_vec
    \/ get_parts
    \/ unwrap
    \/ drop_begin
    \/ drop_extra
    \/ drop_tracked

Spec == Init /\ [][Next]_vars

\* ------------------------------------------------ claims on the buffer
Tracked == 1..Len(shadow)
Range(q) == {q[k] : k \in 1..Len(q)}

\* C1: a buffer dropped without being converted (directly, inside an
\* UninitializedError, or while a panic unwinds) has destroyed every value
\* it was given exactly once, except those take handed to the caller, which
\* it never destroys; no destructor ever runs on a cell that holds no value,
\* and no value is destroyed twice.
C1_DropDestroysEachValueOnce ==
    /\ wild = 0
    /\ \A t \in Ids : drops[t] <= 1
    /\ \A t \in held : drops[t] = 0
    /\ (pc = "done" /\ out.kind \in {"none", "err"}) =>
           \A t \in 1..used : (t \in held) # (drops[t] = 1)

\* a buffer over a longer source, written to and taken from, then dropped
C1_Witness ==
    /\ pc = "done" /\ out.kind = "none" /\ ~panicked
    /\ Len(source) > Len(shadow)
    /\ used > Len(source)
    /\ held # {}
    /\ \E t \in Ids : drops[t] = 1

\* C3: into_vec returns Ok exactly when every tracked slot holds a value
\* (written at construction or by set_value and not taken since), and Err
\* exactly when some tracked slot holds none.
C3_IntoVecOkIffAllInitialized ==
    [][into_vec =>
          /\ (out'.kind = "ok") <=> (\A k \in Tracked : shadow[k] # None)
          /\ (out'.kind = "err" /\ pc' = "err")
                 <=> (\E k \in Tracked : shadow[k] = None)
          /\ \A k \in Tracked : initialized[k] <=> (shadow[k] # None)]_vars

\* into_vec succeeded on a buffer that a take had emptied and a write refilled
C3_Witness ==
    /\ out.kind = "ok" /\ held # {} /\ Len(shadow) = MaxLen

\* C4: the Vec a successful into_vec returns holds, at every tracked index,
\* the value last written there and not taken since.
C4_IntoVecReturnsLastWritten ==
    out.kind = "ok" =>
        /\ Len(out.vec) >= Len(shadow)
        /\ \A k \in Tracked : shadow[k] = Some(out.vec[k])

\* new(2), then writes at 1, 0, 1: the result is in index order
C4_Witness ==
    /\ out.kind = "ok" /\ source = <<>> /\ out.vec = <<2, 3>> /\ drops[1] = 1

\* C5: a failed into_vec, and unwrap of its error, leave the buffer as it
\* was: same flags, same cells (tracked and trailing), nothing destroyed.
C5_FailedIntoVecKeepsBuffer ==
    [][((pc = "live" /\ pc' = "err") \/ (pc = "err" /\ pc' = "live")) =>
          /\ vals' = vals
          /\ initialized' = initialized
          /\ drops' = drops
          /\ wild' = wild
          /\ held' = held]_vars

\* the buffer is back in the caller's hands after a failed into_vec, with a
\* written slot, an empty slot and untracked trailing elements
C5_Witness ==
    /\ pc = "live" /\ out.kind = "err"
    /\ Len(vals) > Len(initialized)
    /\ \E k \in 1..Len(initialized) : initialized[k]
    /\ \E k \in 1..Len(initialized) : ~initialized[k]

\* C6: right after set_value(i, v) on a tracked index, get_value(i) is
\* Some(v), whether or not the slot held a value before.
C6_SetThenGet ==
    [][\A i \in Indices, v \in Ids :
          (set_value(i, v) /\ InRange(i)) =>
              /\ pc' = "live"
              /\ get_value_of(vals', initialized', i) = Some(v)]_vars

\* a slot that held a value was overwritten, and get_value then read the
\* new value back
C6_Witness ==
    /\ pc = "live"
    /\ \E t \in Ids : drops[t] = 1
    /\ \E k \in 1..Len(initialized) :
          initialized[k] /\ vals[k] = used /\ ret = Some(used)

\* C7: when take(i) returns Some(v), v is what get_value(i) showed before
\* and get_value(i) is None afterwards; take(i) on a slot emptied by take
\* and not rewritten or swapped since returns None.
C7_TakeClears ==
    [][\A i \in Indices :
          (take(i) /\ InRange(i)) =>
              /\ ret' # None =>
                    /\ ret' = get_value_of(vals, initialized, i)
                    /\ get_value_of(vals', initialized', i) = None
              /\ i \in emptied => ret' = None
              /\ \A j \in emptied' :
                    get_value_of(vals', initialized', j) = None]_vars

\* take has just returned a value out of a slot
C7_Witness ==
    /\ pc = "live" /\ ret # None /\ ret[1] \in held
    /\ \E i \in emptied : vals[i + 1] = ret[1]

\* C8: over a source longer than the tracked length, a successful into_vec
\* returns a Vec as long as the source, whose trailing elements are the
\* source's, in place, and whose tracked elements are the values last
\* written there; every source value not overwritten or taken is in it, and
\* into_vec fails only if some tracked slot is empty.
C8_OverCapacityKeepsTrailing ==
    Len(source) > Len(shadow) =>
        /\ out.kind = "ok" =>
              /\ Len(out.vec) = Len(source)
              /\ \A k \in (Len(shadow) + 1)..Len(source) : out.vec[k] = source[k]
              /\ \A k \in Tracked : shadow[k] = Some(out.vec[k])
              /\ \A t \in Range(source) :
                    (drops[t] = 0 /\ t \notin held) => t \in Range(out.vec)
        /\ pc = "err" => \E k \in 1..Len(initialized) : ~initialized[k]

\* from_vec of 3 elements tracking 2, one slot overwritten, then converted
C8_Witness ==
    /\ out.kind = "ok" /\ Len(source) = 3 /\ Len(shadow) = 2
    /\ used > Len(source)
    /\ Len(out.vec) = 3

\* ------------------------------------------------------------- MightOwn
\* mutant: the owned flag is not consulted
drop_frees_always(o, f) == f + 1

\* Drop for MightOwn: Box::from_raw(self.ptr) is built and dropped iff owned
drop_frees(o, f) == IF o THEN f + 1 ELSE f

\* a read of the pointee: freed memory may read as anything
ReadPointee(who) ==
    IF frees = 0
    THEN seen' = Read(who, cell)
    ELSE \E x \in TVals : seen' = Read(who, x)

\* MightOwn::owned(Box::new(v))
owned_new(v) ==
    /\ hpc = "start"
    /\ hpc' = "handle"
    /\ owned' = TRUE
    /\ cell' = v
    /\ wrote' = v
    /\ UNCHANGED <<frees, bx, res, seen>>
    /\ UNCHANGED bufvars

\* MightOwn::unowned(&mut x) where the caller's x holds v
unowned(v) ==
    /\ hpc = "start"
    /\ hpc' = "handle"
    /\ owned' = FALSE
    /\ cell' = v
    /\ wrote' = v
    /\ UNCHANGED <<frees, bx, res, seen>>
    /\ UNCHANGED bufvars

\* *handle.get_mut() = v
get_mut(v) ==
    /\ hpc = "handle"
    /\ cell' = v
    /\ wrote' = v
    /\ UNCHANGED <<hpc, owned, frees, bx, res, seen>>
    /\ UNCHANGED bufvars

\* *handle.get_const()
get_const ==
    /\ hpc = "handle"
    /\ ReadPointee("handle")
    /\ UNCHANGED <<hpc, owned, cell, frees, bx, res, wrote>>
    /\ UNCHANGED bufvars

\* get_owned(self): Ok(Box::from_raw(self.ptr)) and then self, which was not
\* moved, is dropped at the end of the call; Err moves self into the error
get_owned ==
    /\ hpc = "handle"
    /\ IF owned
       THEN /\ bx' = TRUE
            /\ res' = "ok"
            /\ frees' = drop_frees(owned, frees)
            /\ hpc' = "gone"
       ELSE /\ res' = "err"
            /\ hpc' = "err"
            /\ UNCHANGED <<bx, frees>>
    /\ UNCHANGED <<owned, cell, seen, wrote>>
    /\ UNCHANGED bufvars

\* NotOwnedError::get
get ==
    /\ hpc = "err"
    /\ hpc' = "handle"
    /\ UNCHANGED <<owned, cell, frees, bx, res, seen, wrote>>
    /\ UNCHANGED bufvars

\* the handle goes out of scope, directly or inside a NotOwnedError
drop_handle ==
    /\ hpc \in {"handle", "err"}
    /\ hpc' = "gone"
    /\ frees' = drop_frees(owned, frees)
    /\ UNCHANGED <<owned, cell, bx, res, seen, wrote>>
    /\ UNCHANGED bufvars

\* the caller reads through the Box that get_owned returned
box_read ==
    /\ bx
    /\ ReadPointee("box")
    /\ UNCHANGED <<hpc, owned, cell, frees, bx, res, wrote>>
    /\ UNCHANGED bufvars

\* the caller drops the Box that get_owned returned
box_drop ==
    /\ bx
    /\ bx' = FALSE
    /\ frees' = frees + 1
    /\ UNCHANGED <<hpc, owned, cell, res, seen, wrote>>
    /\ UNCHANGED bufvars

\* the real owner of a borrowed target reads it once the handle is gone
owner_read ==
    /\ hpc = "gone"
    /\ ~owned
    /\ ReadPointee("owner")
    /\ UNCHANGED <<hpc, owned, cell, frees, bx, res, wrote>>
    /\ UNCHANGED bufvars

NextMightOwn ==
    \/ \E v \in TVals : owned_new(v)
    \/ \E v \in TVals : unowned(v)
    \/ \E v \in TVals : get_mut(v)
    \/ get_const
    \/ get_owned
    \/ get
    \/ drop_handle
    \/ box_read
    \/ box_drop
    \/ owner_read

SpecMightOwn == Init /\ [][NextMightOwn]_vars

\* C11: swap(x, y) on tracked indices exchanges value and flag together:
\* get_value(x) becomes what get_value(y) was and the reverse (also with one
\* slot empty, also for x = y); a swap step never leaves the flags exchanged
\* and the values not, never panics, and destroys nothing.
C11_SwapExchangesValueAndFlag ==
    [][pc = "live" =>
          \A x \in Indices, y \in Indices :
             (InRange(x) /\ InRange(y) /\ swap(x, y)) =>
                 /\ pc' = "live" /\ ~panicked'
                 /\ get_value_of(vals', initialized', x)
                        = get_value_of(vals, initialized, y)
                 /\ get_value_of(vals', initialized', y)
                        = get_value_of(vals, initialized, x)
                 /\ vals'[x + 1] = vals[y + 1] /\ vals'[y + 1] = vals[x + 1]
                 /\ initialized'[x + 1] = initialized[y + 1]
                 /\ initialized'[y + 1] = initialized[x + 1]
                 /\ drops' = drops /\ wild' = wild /\ held' = held]_vars

\* from_vec(<<1>>, 2) then swap(0, 1): the value and its flag moved together
C11_Witness ==
    /\ pc = "live" /\ source = <<1>>
    /\ vals = <<Garbage, 1>> /\ initialized = <<FALSE, TRUE>>

\* C12: from_vec over a source shorter than len leaves every source index
\* initialized with the source's element and every further tracked index
\* empty; a later successful into_vec returns len elements, the values last
\* written, which are the source followed by the new values when only the
\* missing indices were written.
C12_FromShorterSource ==
    [][/\ \A n \in 0..MaxSrc, len \in Lens :
             (from_vec(n, len) /\ n < len) =>
                 /\ Len(initialized') = len
                 /\ \A i \in 0..(len - 1) :
                       get_value_of(vals', initialized', i)
                           = (IF i < n THEN Some(source'[i + 1]) ELSE None)
       /\ (into_vec /\ Len(source) < Len(shadow) /\ out'.kind = "ok") =>
             /\ Len(out'.vec) = Len(shadow)
             /\ \A k \in Tracked : shadow[k] = Some(out'.vec[k])
             /\ (\A k \in 1..Len(source) : shadow[k] = Some(source[k])) =>
                    /\ SubSeq(out'.vec, 1, Len(source)) = source
                    /\ \A k \in (Len(source) + 1)..Len(shadow) :
                          /\ out'.vec[k] # Garbage
                          /\ out'.vec[k] \notin Range(source)]_vars

\* from_vec(<<1>>, 2), set_value(1, 2), into_vec: the source then the new value
C12_Witness ==
    /\ out.kind = "ok" /\ source = <<1>> /\ out.vec = <<1, 2>>
    /\ \A t \in Ids : drops[t] = 0

\* C13: new(len) initializes no slot, and on a buffer built by new a slot
\* whose cell was never written (no set_value there, no written slot swapped
\* in) answers None to get_value, get_value_mut and take, which leave it as
\* it is.
C13_NewIsAllUninitialized ==
    [][/\ \A len \in Lens :
             new(len) =>
                 /\ Len(initialized') = len /\ Len(vals') = len
                 /\ \A i \in 0..(len - 1) :
                       get_value_of(vals', initialized', i) = None
                 /\ used' = 0 /\ drops' = drops /\ wild' = wild
       /\ \A i \in Indices :
             (/\ InRange(i) /\ source = <<>> /\ vals[i + 1] = Garbage
              /\ (get_value(i) \/ get_value_mut(i) \/ take(i))) =>
                 /\ ret' = None
                 /\ get_value_of(vals, initialized, i) = None
                 /\ vals' = vals /\ initialized' = initialized
                 /\ held' = held]_vars

\* a buffer from new(2) with one slot written and the other never written
C13_Witness ==
    /\ pc = "live" /\ source = <<>> /\ Len(vals) = 2 /\ ret = None
    /\ \E k \in 1..2 : vals[k] = Garbage /\ ~initialized[k]
    /\ \E k \in 1..2 : vals[k] # Garbage /\ initialized[k]

\* C14: an index >= len given to get_value, get_value_mut, set_value, take
\* or swap panics, and the panicking call leaves flags and cells (tracked
\* and trailing) as they were: nothing is read, stored, moved out or
\* destroyed in the buffer, also when storage is longer than len.
C14_IndexOutOfRangePanics ==
    [][\A i \in Indices :
          (/\ ~InRange(i)
           /\ \/ get_value(i) \/ get_value_mut(i) \/ take(i)
              \/ \E v \in Ids : set_value(i, v)
              \/ \E y \in Indices : swap(i, y) \/ swap(y, i)) =>
              /\ panicked' /\ pc' = "drop_extra"
              /\ ret' = None
              /\ vals' = vals /\ initialized' = initialized
              /\ held' = held /\ wild' = wild
              /\ \A k \in 1..Len(vals) :
                    vals[k] # Garbage => drops'[vals[k]] = drops[vals[k]]]_vars

\* a call with index len has just panicked on a buffer whose storage holds
\* live trailing elements at len and beyond
C14_Witness ==
    /\ panicked /\ pc = "drop_extra" /\ dlen = Len(vals)
    /\ Len(vals) > Len(initialized)
    /\ vals = source
    /\ \A t \in Ids : drops[t] = 0

\* C15: set_value on an initialized slot runs the destructor of exactly the
\* value stored there, once; on an empty slot it runs no destructor; either
\* way the slot's flag is true afterwards and the new value is not destroyed.
C15_SetValueDropsOldOnly ==
    [][\A i \in Indices, v \in Ids :
          (set_value(i, v) /\ InRange(i)) =>
              /\ initialized'[i + 1]
              /\ wild' = wild
              /\ drops'[v] = 0
              /\ IF initialized[i + 1]
                 THEN /\ vals[i + 1] # Garbage
                      /\ drops'[vals[i + 1]] = 1
                      /\ \A t \in Ids \ {vals[i + 1]} : drops'[t] = drops[t]
                 ELSE drops' = drops]_vars

\* new(2), set_value(0, 1), set_value(0, 2): value 1 was destroyed, once
C15_Witness ==
    /\ pc = "live" /\ source = <<>> /\ used = 2
    /\ vals[1] = 2 /\ initialized[1]
    /\ drops[1] = 1 /\ drops[2] = 0

\* C16: once into_vec has succeeded or get_parts was called, the consumed
\* buffer is empty, and its destruction runs no destructor: every value in
\* the returned Vec is still undestroyed when the buffer is gone.
C16_ConsumedBufferDropsNothing ==
    out.kind \in {"ok", "parts"} =>
        /\ wild = 0
        /\ \A k \in 1..Len(out.vec) :
              out.vec[k] # Garbage => drops[out.vec[k]] = 0
        /\ out.kind = "ok" => \A k \in 1..Len(out.vec) : out.vec[k] # Garbage
        /\ vals = <<>> /\ initialized = <<>>

\* the buffer is gone after into_vec returned three values
C16_Witness ==
    /\ pc = "done" /\ out.kind = "ok" /\ Len(out.vec) = 3
    /\ used > Len(source)

\* C17: Drop::drop first pops, and so destroys, one untracked trailing cell
\* per turn while storage is longer than the flags; then it takes the flags
\* from last to first, one per turn, destroying the last cell when the flag
\* is true and only cutting it off when it is false.  The local len always
\* is the storage length; during the first phase storage is at least as
\* long as the flags, at every turn of the second it is exactly as long as
\* the flags still to visit, and at the end it is 0, so that the drop of
\* the field vals runs no destructor.
C17_DropProtocol ==
    [][/\ pc' \in {"drop_extra", "drop_tracked"} => dlen' = Len(vals')
       /\ pc' = "drop_extra" => Len(vals') >= Len(initialized')
       /\ pc' = "drop_tracked" => Len(vals') = Len(initialized')
       /\ (drop_extra /\ pc' = "drop_extra") =>
             /\ Len(vals) > Len(initialized)
             /\ vals' = SubSeq(vals, 1, Len(vals) - 1)
             /\ initialized' = initialized
             /\ vals[Len(vals)] # Garbage
             /\ drops' = [drops EXCEPT ![vals[Len(vals)]] = @ + 1]
             /\ wild' = wild
       /\ (drop_extra /\ pc' = "drop_tracked") =>
             /\ Len(vals) = Len(initialized)
             /\ vals' = vals /\ initialized' = initialized
             /\ drops' = drops /\ wild' = wild
       /\ (drop_tracked /\ pc' = "drop_tracked") =>
             /\ initialized' = SubSeq(initialized, 1, Len(initialized) - 1)
             /\ vals' = SubSeq(vals, 1, Len(vals) - 1)
             /\ wild' = wild
             /\ IF initialized[Len(initialized)]
                THEN /\ vals[Len(vals)] # Garbage
                     /\ drops' = [drops EXCEPT ![vals[Len(vals)]] = @ + 1]
                ELSE drops' = drops
       /\ (drop_tracked /\ pc' = "done") =>
             /\ vals = <<>> /\ initialized = <<>>
             /\ vals' = <<>>
             /\ drops' = drops /\ wild' = wild]_vars

\* halfway through the second phase on a buffer that had trailing cells and
\* an emptied slot
C17_Witness ==
    /\ pc = "drop_tracked"
    /\ Len(source) > Len(shadow)
    /\ Len(initialized) > 0 /\ Len(initialized) < Len(shadow)
    /\ held # {}

\* a cell holds a live value: it was written, the caller did not take the
\* value out of it, and no destructor ran on it
Live(c) == c # Garbage /\ c \notin held /\ drops[c] = 0

LiveBuffer == pc \in {"live", "err"}

FlagsTellLiveCells ==
    /\ LiveBuffer =>
          /\ \A k \in 1..Len(initialized) : initialized[k] <=> Live(vals[k])
          /\ \A k \in (Len(initialized) + 1)..Len(vals) : Live(vals[k])
    /\ wild = 0
    /\ \A t \in held : drops[t] = 0

\* C18: while the buffer is live (also inside an UninitializedError), a
\* tracked flag is true exactly when its cell holds a live value and every
\* cell beyond the flags holds a live value.  No destructor ever runs on a
\* never-written cell or on the bytes take left behind, in any operation
\* or in Drop; get_value, get_value_mut and take on a false flag return None
\* without reading the cell and on a true flag return the cell's live
\* value; set_value on a false flag and swap run no destructor; into_vec
\* with a false flag returns Err and hands out no cell.
C18_FlagsTellLiveCells ==
    [][/\ FlagsTellLiveCells'
       /\ pc = "live" =>
             /\ \A i \in Indices :
                   (InRange(i)
                      /\ (get_value(i) \/ get_value_mut(i) \/ take(i))) =>
                       IF initialized[i + 1]
                       THEN ret' = Some(vals[i + 1]) /\ vals[i + 1] # Garbage
                       ELSE ret' = None
             /\ \A i \in Indices :
                   (InRange(i) /\ ~initialized[i + 1]
                      /\ set_value(i, used + 1)) => drops' = drops
             /\ \A x \in Indices, y \in Indices :
                   (InRange(x) /\ InRange(y) /\ swap(x, y)) =>
                       drops' = drops /\ ret' = None
             /\ ((\E k \in 1..Len(initialized) : ~initialized[k])
                   /\ into_vec) =>
                   out'.kind = "err" /\ out'.vec = <<>> /\ drops' = drops]_vars

\* a live buffer with trailing cells, an emptied slot still holding the
\* taken value's bytes, and a read of that slot answered None
C18_Witness ==
    /\ pc = "live"
    /\ Len(vals) > Len(initialized)
    /\ \E k \in 1..Len(initialized) : ~initialized[k] /\ vals[k] \in held
    /\ emptied # {}
    /\ ret = None
    /\ out.kind = "err"

MaxOf(a, b) == IF a >= b THEN a ELSE b

\* C19: while the buffer is live (also inside an UninitializedError, and
\* after any calls of set_value, take, swap, get_value and failed
\* into_vec), the number of flags is the len given at construction (the
\* length of shadow) and is at most the storage length; the storage length
\* is the larger of len and the source's length (len for new, whose source
\* is empty); so every index in range of the flags is in range of storage.
C19_LengthsFixed ==
    LiveBuffer =>
        /\ Len(initialized) = Len(shadow)
        /\ Len(initialized) <= Len(vals)
        /\ Len(vals) = MaxOf(Len(shadow), Len(source))
        /\ \A i \in Indices : InRange(i) => i + 1 \in DOMAIN vals

\* a buffer built from a longer source, after set_value, take and a failed
\* into_vec whose error was unwrapped
C19_Witness ==
    /\ pc = "live"
    /\ Len(source) > Len(shadow)
    /\ Len(shadow) > 0
    /\ used > Len(source)
    /\ held # {}
    /\ out.kind = "err"

\* cells and flags other than those of the 0-based slots in S are the same
\* before and after the step
SameOutside(S) ==
    /\ Len(vals') = Len(vals)
    /\ Len(initialized') = Len(initialized)
    /\ \A k \in 1..Len(vals) : (k - 1) \notin S => vals'[k] = vals[k]
    /\ \A k \in 1..Len(initialized) :
          (k - 1) \notin S => initialized'[k] = initialized[k]

\* C20: for indices in range, set_value(i, _) and take(i) leave the cell
\* and flag of every other tracked slot and every trailing cell as they
\* were; take(i) on a slot whose flag is false, get_value(i) and
\* get_value_mut(i) leave every cell and flag as they were and run no
\* destructor and hand out no value; swap(x, y) leaves every slot other than
\* x and y as it was.
C20_OnlyNamedSlotsChange ==
    [][pc = "live" =>
          /\ \A i \in Indices :
                (InRange(i) /\ set_value(i, used + 1)) => SameOutside({i})
          /\ \A i \in Indices :
                (InRange(i) /\ take(i)) =>
                    /\ SameOutside({i})
                    /\ ~initialized[i + 1] =>
                          /\ SameOutside({})
                          /\ drops' = drops /\ wild' = wild /\ held' = held
          /\ \A i \in Indices :
                (InRange(i) /\ (get_value(i) \/ get_value_mut(i))) =>
                    /\ SameOutside({})
                    /\ drops' = drops /\ wild' = wild /\ held' = held
          /\ \A x \in Indices, y \in Indices :
                (InRange(x) /\ InRange(y) /\ swap(x, y)) =>
                    SameOutside({x, y})]_vars

\* slot 0 rewritten by set_value and slot 1 emptied by take, with the
\* trailing cell of the longer source still in place
C20_Witness ==
    /\ pc = "live"
    /\ Len(vals) = 3 /\ Len(initialized) = 2
    /\ vals[1] = 4 /\ initialized[1]
    /\ vals[2] = 2 /\ ~initialized[2] /\ 2 \in held
    /\ vals[3] = 3

\* ------------------------------------------------ claims on MightOwn
\* C2: after get_owned on an owned handle the pointee is freed exactly once,
\* by the returned Box, and that Box never points to freed memory.
C2_GetOwnedDetaches ==
    /\ bx => frees = 0
    /\ frees <= 1

\* C9: get_owned returns Ok with the wrapped value iff the handle is owned;
\* on an unowned handle it returns Err, and NotOwnedError::get gives the
\* handle back: same target, still unowned, target untouched.
C9_GetOwnedIffOwned ==
    /\ res = "ok" => owned
    /\ res = "err" => ~owned
    /\ (res = "ok" /\ bx) => (frees = 0 /\ cell = wrote)
    /\ seen.by = "box" => seen.v = wrote
    /\ (res = "err" /\ hpc \in {"err", "handle"}) => (frees = 0 /\ cell = wrote)

\* C9, the half that the code keeps: on an unowned handle get_owned returns
\* Err, NotOwnedError::get gives back the same unowned handle, and reads and
\* writes through it still reach the live target.
C9_UnownedRecovers ==
    /\ res = "err" => (~owned /\ ~bx /\ frees = 0 /\ cell = wrote)
    /\ (owned /\ hpc = "gone" /\ res # "none") => res = "ok"

\* C10: destroying a MightOwn frees the pointee once if the handle is owned
\* and leaves it alone if it is not: a borrowed target is never freed and
\* keeps its value, also when the handle dies inside a NotOwnedError.
C10_DropFreesIffOwned ==
    [][/\ (hpc \in {"handle", "err"} /\ hpc' = "gone") =>
              /\ frees' = frees + (IF owned THEN 1 ELSE 0)
              /\ cell' = cell
       /\ ~owned' => (frees' = 0 /\ cell' = wrote')]_vars

\* a NotOwnedError was dropped without get, and the owner then read its value
C10_Witness ==
    /\ hpc = "gone" /\ ~owned /\ res = "err"
    /\ frees = 0 /\ seen = Read("owner", wrote)

====
